---------------------------- MODULE Spec2Model ----------------------------
(***************************************************************************)
(* go-calc (cmd/calc/main.go): the CloudSQL custom tier calculator.        *)
(*                                                                         *)
(* Two specifications share the definitions below.                         *)
(*   Spec    the command-line process: flag.Parse() sets the six flags,    *)
(*           then main() runs the first mode whose flag is set.            *)
(*   SpecFn  the tier arithmetic applied to inputs drawn from bounded      *)
(*           sets: validateTier, nearestValidTier, the known-tier searches *)
(*           and the computation each mode of main() performs.             *)
(*                                                                         *)
(* Numbers.  Go's int is 64 bits wide; the inputs here stay far below the  *)
(* width, so no sum or product wraps.  The float64 expressions of the      *)
(* source are modelled by the integers they evaluate to on integral        *)
(* inputs: 6.5*c*1024 = 6656*c and c*1.5*1024 = 1536*c exactly, and        *)
(* int(0.9*c*1024) = trunc(9216*c/10) (0.9*c*1024 is never within 0.2 of   *)
(* an integer unless it is one, and then it is computed exactly).          *)
(***************************************************************************)
EXTENDS Integers, Sequences, FiniteSets

VARIABLES
    pc,        \* Spec: "parse" (flag.Parse running), "run" (main's dispatch), "done"
    flags,     \* Spec: the six flag values
    supplied,  \* Spec: the flag names that appeared on the command line
    nargs,     \* Spec: how many flag occurrences flag.Parse has consumed
    exitCode,  \* Spec: the process exit status (-1 while running)
    mode,      \* Spec: the branch of main() that ran
    out,       \* Spec: what that branch computed and printed
    call,      \* SpecFn: the function applied and its arguments
    ret        \* SpecFn: what it returned

vars == <<pc, flags, supplied, nargs, exitCode, mode, out, call, ret>>

---------------------------------------------------------------------------
(* Bounds of the model *)

\* Spec: flag occurrences on one command line
MaxArgs == 2
\* Spec: largest -cpu value
MaxCpuArg == 3
\* Spec: most space-separated parts of a -check-downgrade value
MaxParts == 2
\* SpecFn: vCPU inputs range from -MaxCpuBelow to 96 + MaxCpuAbove
MaxCpuBelow == 2
MaxCpuAbove == 4
\* SpecFn: memory inputs lie within MaxBlk blocks of 256 MB, give or take
\* MaxOff MB, of an anchor, or on a coarse grid of MaxGrid points
MaxBlk == 1
MaxOff == 1
MaxGrid == 42
\* SpecFn: -mem inputs reach MaxMemBlocks blocks of 256 MB
MaxMemBlocks == 600

---------------------------------------------------------------------------
(* Go integer and float64 primitives *)

\* Go's integer division truncates toward zero (b > 0)
TruncDiv(a, b) == IF a >= 0 THEN a \div b ELSE -((-a) \div b)

\* Go's remainder has the sign of the dividend
GoRem(a, b) == a - TruncDiv(a, b) * b

\* math.Ceil(a / b) for b > 0
CeilDiv(a, b) == -((-a) \div b)

\* math.Round(n / d) for n >= 0, d > 0: half away from zero
RoundHalfAway(n, d) == (2 * n + d) \div (2 * d)

\* ((x + 255) / 256) * 256
RoundUp256Skew(x) == TruncDiv(x + 256, 256) * 256
RoundUp256(x) == TruncDiv(x + 255, 256) * 256

\* (x / 256) * 256
RoundDown256(x) == TruncDiv(x, 256) * 256

\* int(0.9 * float64(cpu) * 1024)
MinRatioRAM(cpu) == TruncDiv(9216 * cpu, 10)

\* int(6.5 * float64(cpu) * 1024)
MaxRatioRAM(cpu) == 6656 * cpu

---------------------------------------------------------------------------
(* validateTier *)

validateTierMod1024(cpu, ram) ==
    IF cpu < 1 \/ cpu > 96 THEN FALSE
    ELSE IF cpu # 1 /\ GoRem(cpu, 2) # 0 THEN FALSE
    ELSE IF GoRem(ram, 1024) # 0 \/ ram < 3840 THEN FALSE
    ELSE ram >= MinRatioRAM(cpu) /\ ram <= MaxRatioRAM(cpu)

validateTier(cpu, ram) ==
    IF cpu < 1 \/ cpu > 96 THEN FALSE
    ELSE IF cpu # 1 /\ GoRem(cpu, 2) # 0 THEN FALSE
    ELSE IF GoRem(ram, 256) # 0 \/ ram < 3840 THEN FALSE
    ELSE ram >= MinRatioRAM(cpu) /\ ram <= MaxRatioRAM(cpu)

---------------------------------------------------------------------------
(* suggestNextTier: its first parameter is ignored (the blank identifier) *)

suggestNextTier(cpu, ram) ==
    LET cpusNext == CeilDiv(ram, 1536)
        ramNext  == RoundUp256(1536 * cpusNext)
    IN  [cpu |-> cpusNext, ram |-> IF ramNext < 3840 THEN 3840 ELSE ramNext]

---------------------------------------------------------------------------
(* knownTiers and its two linear searches *)

T(c, r) == [cpu |-> c, ram |-> r]

knownTiersTypo ==
    << T(1, 3840),
       T(2, 7680),    T(2, 13312),
       T(4, 15360),   T(4, 26624),
       T(6, 23040),   T(6, 39936),
       T(8, 30720),   T(8, 53284),
       T(10, 38400),  T(10, 66560),
       T(12, 46080),  T(12, 79872),
       T(16, 61440),  T(16, 106496),
       T(24, 92160),  T(24, 159744),
       T(32, 122880), T(32, 212992),
       T(48, 184320), T(48, 319488),
       T(64, 245760), T(64, 425984),
       T(80, 307200), T(80, 532480),
       T(96, 368640), T(96, 638976) >>

knownTiers ==
    << T(1, 3840),
       T(2, 7680),    T(2, 13312),
       T(4, 15360),   T(4, 26624),
       T(6, 23040),   T(6, 39936),
       T(8, 30720),   T(8, 53248),
       T(10, 38400),  T(10, 66560),
       T(12, 46080),  T(12, 79872),
       T(16, 61440),  T(16, 106496),
       T(24, 92160),  T(24, 159744),
       T(32, 122880), T(32, 212992),
       T(48, 184320), T(48, 319488),
       T(64, 245760), T(64, 425984),
       T(80, 307200), T(80, 532480),
       T(96, 368640), T(96, 638976) >>

NotFound == [cpu |-> 0, ram |-> 0, found |-> FALSE]
Found(t) == [cpu |-> t.cpu, ram |-> t.ram, found |-> TRUE]

\* the loop of findNextKnownTier from index i on
RECURSIVE ScanUp(_, _, _)
ScanUp(i, cpu, ram) ==
    IF i > Len(knownTiers) THEN NotFound
    ELSE LET t == knownTiers[i]
         IN  IF t.cpu > cpu \/ (t.cpu = cpu /\ t.ram > ram)
             THEN Found(t)
             ELSE ScanUp(i + 1, cpu, ram)

RECURSIVE ScanUpInclusive(_, _, _)
ScanUpInclusive(i, cpu, ram) ==
    IF i > Len(knownTiers) THEN NotFound
    ELSE LET t == knownTiers[i]
         IN  IF t.cpu > cpu \/ (t.cpu = cpu /\ t.ram >= ram)
             THEN Found(t)
             ELSE ScanUpInclusive(i + 1, cpu, ram)

findNextKnownTierInclusive(cpu, ram) == ScanUpInclusive(1, cpu, ram)
findNextKnownTier(cpu, ram) == ScanUp(1, cpu, ram)

\* the loop of findPreviousKnownTier from index i down
RECURSIVE ScanDown(_, _, _)
ScanDown(i, cpu, ram) ==
    IF i < 1 THEN NotFound
    ELSE LET t == knownTiers[i]
         IN  IF t.cpu < cpu \/ (t.cpu = cpu /\ t.ram < ram)
             THEN Found(t)
             ELSE ScanDown(i - 1, cpu, ram)

findPreviousKnownTier(cpu, ram) == ScanDown(Len(knownTiers), cpu, ram)

---------------------------------------------------------------------------
(* nearestValidTier *)

nearestValidTierNoFloor(cpu, ram) ==
    LET c    == IF cpu < 1 THEN 1
                ELSE IF cpu > 96 THEN 96
                ELSE IF cpu # 1 /\ GoRem(cpu, 2) # 0 THEN cpu + 1
                ELSE cpu
        r1   == RoundUp256(ram)
        minRAM == RoundUp256(MinRatioRAM(c))
        maxRAM == RoundDown256(MaxRatioRAM(c))
        r3   == IF r1 < minRAM THEN minRAM ELSE r1
    IN  [cpu |-> c, ram |-> IF r3 > maxRAM THEN maxRAM ELSE r3]

nearestValidTier(cpu, ram) ==
    LET c    == IF cpu < 1 THEN 1
                ELSE IF cpu > 96 THEN 96
                ELSE IF cpu # 1 /\ GoRem(cpu, 2) # 0 THEN cpu + 1
                ELSE cpu
        r1   == RoundUp256(ram)
        r2   == IF r1 < 3840 THEN 3840 ELSE r1
        minRAM == RoundUp256(MinRatioRAM(c))
        maxRAM == RoundDown256(MaxRatioRAM(c))
        r3   == IF r2 < minRAM THEN minRAM ELSE r2
    IN  [cpu |-> c, ram |-> IF r3 > maxRAM THEN maxRAM ELSE r3]

---------------------------------------------------------------------------
(* Strings.  A tier string is modelled by the text before its first number *)
(* and the two digit runs of "<prefix>-<digits>-<digits>"; a memory string *)
(* by its leading numeral (digits) and the text that follows it.  A number *)
(* is a sequence of decimal digits, most significant first.                *)

\* strconv.Atoi on a run of digits
RECURSIVE Atoi(_)
Atoi(ds) == IF ds = <<>> THEN 0
            ELSE 10 * Atoi(SubSeq(ds, 1, Len(ds) - 1)) + ds[Len(ds)]

\* the %d verb of fmt, for n >= 0
RECURSIVE Itoa(_)
Itoa(n) == IF n < 10 THEN <<n>> ELSE Append(Itoa(n \div 10), n % 10)

TierStr(p, c, r) == [prefix |-> p, cpu |-> c, ram |-> r]
EmptyTierStr == TierStr("", <<>>, <<>>)

\* fmt.Sprintf("db-custom-%d-%d", c, r)
FormatTier(c, r) == TierStr("db-custom", Itoa(c), Itoa(r))

\* the regexp db-custom-(\d+)-(\d+) needs the literal prefix and two
\* non-empty digit runs
parseTier(tier) ==
    IF tier.prefix # "db-custom" \/ tier.cpu = <<>> \/ tier.ram = <<>>
    THEN [err |-> TRUE, cpu |-> 0, ram |-> 0]
    ELSE [err |-> FALSE, cpu |-> Atoi(tier.cpu), ram |-> Atoi(tier.ram)]

MemStr(n, u) == [num |-> n, unit |-> u]
EmptyMemStr == MemStr(<<>>, "")

\* fmt.Sscanf(memStr, "%f%s", &value, &unit) returns an error when the
\* numeral is missing and also when nothing follows it (%s meets the end of
\* the input), so a numeral without a unit is rejected before the switch.
parseMem(memStr) ==
    IF memStr = EmptyMemStr THEN [err |-> "empty memory string", value |-> 0]
    ELSE IF memStr.num = <<>> \/ memStr.unit = ""
         THEN [err |-> "invalid memory format", value |-> 0]
    ELSE IF memStr.unit \in {"G", "g"}
         THEN [err |-> "", value |-> Atoi(memStr.num) * 1024]
    ELSE IF memStr.unit \in {"M", "m", ""}
         THEN [err |-> "", value |-> Atoi(memStr.num)]
    ELSE [err |-> "invalid unit", value |-> 0]

---------------------------------------------------------------------------
(* What each mode of main() computes from its parsed input *)

\* -bump-mem
BumpMemModeSixGB(c, r) ==
    LET m0    == RoundDown256(6144 * c)
        ramMB == IF m0 < 3840 THEN 3840 ELSE m0
    IN  [relation |-> IF ramMB = r THEN "AlreadyMax"
                      ELSE IF ramMB < r THEN "AlreadyExceedsMax"
                      ELSE "Bumped",
         cpu |-> c, ram |-> ramMB, newTier |-> FormatTier(c, ramMB)]

BumpMemMode(c, r) ==
    LET m0    == RoundDown256(MaxRatioRAM(c))
        ramMB == IF m0 < 3840 THEN 3840 ELSE m0
    IN  [relation |-> IF ramMB = r THEN "AlreadyMax"
                      ELSE IF ramMB < r THEN "AlreadyExceedsMax"
                      ELSE "Bumped",
         cpu |-> c, ram |-> ramMB, newTier |-> FormatTier(c, ramMB)]

\* -check-downgrade, after both tiers parsed
CheckDowngradeMode(currCPU, currRAM, recCPU, recRAM) ==
    LET isValidCurr == validateTier(currCPU, currRAM)
        isValidRec  == validateTier(recCPU, recRAM)
        isLower     == recCPU < currCPU \/ (recCPU = currCPU /\ recRAM < currRAM)
        yes         == isValidRec /\ isLower
        adj         == nearestValidTier(recCPU, recRAM)
        adjLower    == adj.cpu < currCPU \/ (adj.cpu = currCPU /\ adj.ram < currRAM)
    IN  [isValidCurr    |-> isValidCurr,
         isValidRec     |-> isValidRec,
         isLower        |-> isLower,
         validDowngrade |-> yes,
         nearestShown   |-> ~yes /\ ~isValidRec,
         nearest        |-> IF ~yes /\ ~isValidRec THEN adj ELSE T(0, 0),
         adjLowerShown  |-> ~yes /\ ~isValidRec /\ adjLower,
         notLowerShown  |-> ~yes /\ ~isLower,
         knownShown     |-> ~yes,
         known          |-> IF ~yes THEN findPreviousKnownTier(currCPU, currRAM)
                            ELSE NotFound]

\* -downgrade
DowngradeMode(currCPU, currRAM) ==
    [isValidCurr |-> validateTier(currCPU, currRAM),
     prev        |-> findPreviousKnownTier(currCPU, currRAM)]

\* -t
TierMode(c, r) ==
    LET next == findNextKnownTier(c, r)
        sug  == suggestNextTier(c, r)
    IN  IF next.found
        THEN [label |-> "NextKnown", cpu |-> next.cpu, ram |-> next.ram]
        ELSE IF sug.cpu = c /\ sug.ram = r
             THEN [label |-> "AlreadyValid", cpu |-> c, ram |-> r]
             ELSE [label |-> "NextValid", cpu |-> sug.cpu, ram |-> sug.ram]

\* -cpu, for a whole number of vCPUs cpu > 0
CpuMode(cpu) ==
    LET r1    == RoundUp256(1536 * cpu)
        ramMB == IF r1 < 3840 THEN 3840 ELSE r1
    IN  [cpu |-> cpu, ram |-> ramMB, tier |-> FormatTier(cpu, ramMB)]

\* -mem, for the whole number of MB parseMem returned
MemModeTenfold(memMB) ==
    LET r1    == RoundUp256(memMB)
        m     == IF r1 < 3840 THEN 3840 ELSE r1
        c0    == RoundHalfAway(m, 15360)
        cpus  == IF c0 < 1 THEN 1 ELSE c0
    IN  [cpu |-> cpus, ram |-> m, tier |-> FormatTier(cpus, m),
         warning |-> ~validateTier(cpus, m)]

MemMode(memMB) ==
    LET r1    == RoundUp256(memMB)
        m     == IF r1 < 3840 THEN 3840 ELSE r1
        c0    == RoundHalfAway(m, 1536)
        cpus  == IF c0 < 1 THEN 1 ELSE c0
    IN  [cpu |-> cpus, ram |-> m, tier |-> FormatTier(cpus, m),
         warning |-> ~validateTier(cpus, m)]

---------------------------------------------------------------------------
(* Spec: the command-line process *)

\* the defaults of the flag declarations
DefaultFlags ==
    [cpu |-> 0, mem |-> EmptyMemStr, t |-> EmptyTierStr, bumpMem |-> EmptyTierStr,
     checkDowngrade |-> <<>>, downgrade |-> EmptyTierStr]

\* the values a command line may give
CpuArgs == (-1) .. MaxCpuArg
MemArgs == { MemStr(<<6>>, "G"), MemStr(<<6, 1, 4, 4>>, "M"), MemStr(<<6, 1, 4, 4>>, ""),
             MemStr(<<3, 8, 4, 0>>, "m"), MemStr(<<6>>, "K"), MemStr(<<>>, "abc") }
TierArgs == { FormatTier(8, 53248), FormatTier(8, 32000), FormatTier(4, 3840),
              FormatTier(97, 3840), TierStr("custom", <<4>>, <<3, 8, 4, 0>>) }
\* a -check-downgrade value, as the parts strings.Split(value, " ") yields
CheckArgs == UNION { [1 .. n -> TierArgs] : n \in 1 .. MaxParts }

cliVars == <<pc, flags, supplied, nargs, exitCode, mode, out>>

NoCall == [op |-> "none", cpu |-> 0, ram |-> 0]
NoOut  == [msg |-> ""]

Init ==
    /\ pc = "parse"
    /\ flags = DefaultFlags
    /\ supplied = {}
    /\ nargs = 0
    /\ exitCode = -1
    /\ mode = ""
    /\ out = NoOut
    /\ call = NoCall
    /\ ret = NoOut

\* flag.Parse() consumes one "-name value" occurrence; a repeated flag
\* keeps its last value
ParseArg ==
    /\ pc = "parse"
    /\ nargs < MaxArgs
    /\ nargs' = nargs + 1
    /\ \/ \E v \in CpuArgs :
             flags' = [flags EXCEPT !.cpu = v] /\ supplied' = supplied \cup {"cpu"}
       \/ \E v \in MemArgs :
             flags' = [flags EXCEPT !.mem = v] /\ supplied' = supplied \cup {"mem"}
       \/ \E v \in TierArgs :
             flags' = [flags EXCEPT !.t = v] /\ supplied' = supplied \cup {"t"}
       \/ \E v \in TierArgs :
             flags' = [flags EXCEPT !.bumpMem = v] /\ supplied' = supplied \cup {"bump-mem"}
       \/ \E v \in CheckArgs :
             flags' = [flags EXCEPT !.checkDowngrade = v]
             /\ supplied' = supplied \cup {"check-downgrade"}
       \/ \E v \in TierArgs :
             flags' = [flags EXCEPT !.downgrade = v] /\ supplied' = supplied \cup {"downgrade"}
    /\ UNCHANGED <<pc, exitCode, mode, out, call, ret>>

\* flag.Parse() returns at the end of the command line
ParseDone ==
    /\ pc = "parse"
    /\ pc' = "run"
    /\ UNCHANGED <<flags, supplied, nargs, exitCode, mode, out, call, ret>>

Finish(m, code, o) ==
    /\ pc' = "done"
    /\ mode' = m
    /\ exitCode' = code
    /\ out' = o
    /\ UNCHANGED <<flags, supplied, nargs, call, ret>>

InvalidTierFormat == [msg |-> "Invalid tier format"]

\* if *bumpMem != ""
MainBumpMem ==
    /\ pc = "run"
    /\ flags.bumpMem # EmptyTierStr
    /\ LET p == parseTier(flags.bumpMem)
       IN  IF p.err THEN Finish("bump-mem", 1, InvalidTierFormat)
           ELSE Finish("bump-mem", 0, BumpMemMode(p.cpu, p.ram))

\* if *checkDowngrade != ""
MainCheckDowngrade ==
    /\ pc = "run"
    /\ flags.bumpMem = EmptyTierStr
    /\ flags.checkDowngrade # <<>>
    /\ LET parts == flags.checkDowngrade
       IN  IF Len(parts) # 2
           THEN Finish("check-downgrade", 1, [msg |-> "Usage: -check-downgrade"])
           ELSE LET curr == parseTier(parts[1])
                    rec  == parseTier(parts[2])
                IN  IF curr.err \/ rec.err
                    THEN Finish("check-downgrade", 1, InvalidTierFormat)
                    ELSE Finish("check-downgrade", 0,
                                CheckDowngradeMode(curr.cpu, curr.ram, rec.cpu, rec.ram))

\* if *downgrade != ""
MainDowngrade ==
    /\ pc = "run"
    /\ flags.bumpMem = EmptyTierStr
    /\ flags.checkDowngrade = <<>>
    /\ flags.downgrade # EmptyTierStr
    /\ LET p == parseTier(flags.downgrade)
       IN  IF p.err THEN Finish("downgrade", 1, InvalidTierFormat)
           ELSE Finish("downgrade", 0, DowngradeMode(p.cpu, p.ram))

\* if *tier != ""
MainTier ==
    /\ pc = "run"
    /\ flags.bumpMem = EmptyTierStr
    /\ flags.checkDowngrade = <<>>
    /\ flags.downgrade = EmptyTierStr
    /\ flags.t # EmptyTierStr
    /\ LET p == parseTier(flags.t)
       IN  IF p.err THEN Finish("t", 1, InvalidTierFormat)
           ELSE Finish("t", 0, TierMode(p.cpu, p.ram))

NoTierFlag ==
    /\ flags.bumpMem = EmptyTierStr
    /\ flags.checkDowngrade = <<>>
    /\ flags.downgrade = EmptyTierStr
    /\ flags.t = EmptyTierStr

\* if (*cpu == 0 && *mem == "") || (*cpu != 0 && *mem != "")
UsageCond ==
    \/ flags.cpu = 0 /\ flags.mem = EmptyMemStr
    \/ flags.cpu # 0 /\ flags.mem # EmptyMemStr

MainUsage ==
    /\ pc = "run"
    /\ NoTierFlag
    /\ UsageCond
    /\ Finish("usage", 1, [msg |-> "Usage: go-calc"])

\* if *cpu > 0
MainCpu ==
    /\ pc = "run"
    /\ NoTierFlag
    /\ ~UsageCond
    /\ flags.cpu > 0
    /\ Finish("cpu", 0, CpuMode(flags.cpu))

\* else
MainMem ==
    /\ pc = "run"
    /\ NoTierFlag
    /\ ~UsageCond
    /\ ~(flags.cpu > 0)
    /\ LET m == parseMem(flags.mem)
       IN  IF m.err # "" THEN Finish("mem", 1, [msg |-> m.err])
           ELSE Finish("mem", 0, MemMode(m.value))

Next ==
    \/ ParseArg
    \/ ParseDone
    \/ MainBumpMem
    \/ MainCheckDowngrade
    \/ MainDowngrade
    \/ MainTier
    \/ MainUsage
    \/ MainCpu
    \/ MainMem

Spec == Init /\ [][Next]_vars

---------------------------------------------------------------------------
(* SpecFn: the functions applied to inputs drawn from bounded sets *)

CpuInputs == (0 - MaxCpuBelow) .. (96 + MaxCpuAbove)

Blocks  == (0 - MaxBlk) .. MaxBlk
Offsets == (0 - MaxOff) .. MaxOff

\* memory inputs for a vCPU count: around zero, the 3840 MB floor, the two
\* ratio bounds, the 1.5 GB/vCPU target and the 3.75 GB/vCPU table entry,
\* and a coarse grid across the table's range
RamAnchors(cpu) ==
    {0, 3840, MinRatioRAM(cpu), MaxRatioRAM(cpu), 1536 * cpu, 3840 * cpu}
RamInputs(cpu) ==
    {a + 256 * k + d : a \in RamAnchors(cpu), k \in Blocks, d \in Offsets}
        \cup {16000 * g : g \in 0 .. MaxGrid}

\* what parseTier can return: no sign
ParsedCpus == {c \in CpuInputs : c >= 0}
ParsedRams(cpu) == {r \in RamInputs(cpu) : r >= 0}

\* what parseMem can return, whole MB
MemInputs == {256 * k + d : k \in (-2) .. MaxMemBlocks, d \in Offsets}

InitFn ==
    /\ pc = "idle"
    /\ flags = DefaultFlags
    /\ supplied = {}
    /\ nargs = 0
    /\ exitCode = -1
    /\ mode = ""
    /\ out = NoOut
    /\ call = NoCall
    /\ ret = NoOut

Apply(op, cpu, ram, result) ==
    /\ call' = [op |-> op, cpu |-> cpu, ram |-> ram]
    /\ ret' = result
    /\ UNCHANGED cliVars

ApplyValidateKnown ==
    /\ call = NoCall
    /\ \E i \in 1 .. Len(knownTiers) :
            Apply("validateKnown", knownTiers[i].cpu, knownTiers[i].ram,
                  [valid |-> validateTier(knownTiers[i].cpu, knownTiers[i].ram)])

ApplyNearestValidTier ==
    /\ call = NoCall
    /\ \E cpu \in CpuInputs : \E ram \in RamInputs(cpu) :
            Apply("nearestValidTier", cpu, ram, nearestValidTier(cpu, ram))

ApplyFindNextKnownTier ==
    /\ call = NoCall
    /\ \E cpu \in CpuInputs : \E ram \in RamInputs(cpu) :
            Apply("findNextKnownTier", cpu, ram, findNextKnownTier(cpu, ram))

ApplyFindPreviousKnownTier ==
    /\ call = NoCall
    /\ \E cpu \in CpuInputs : \E ram \in RamInputs(cpu) :
            Apply("findPreviousKnownTier", cpu, ram, findPreviousKnownTier(cpu, ram))

ApplyBumpMem ==
    /\ call = NoCall
    /\ \E c \in ParsedCpus : \E r \in ParsedRams(c) :
            Apply("bumpMem", c, r, BumpMemMode(c, r))

ApplyTier ==
    /\ call = NoCall
    /\ \E c \in ParsedCpus : \E r \in ParsedRams(c) :
            Apply("tier", c, r, TierMode(c, r))

ApplyCpu ==
    /\ call = NoCall
    /\ \E cpu \in {c \in CpuInputs : c > 0} :
            Apply("cpu", cpu, 0, CpuMode(cpu))

ApplyMem ==
    /\ call = NoCall
    /\ \E m \in MemInputs :
            Apply("mem", 0, m, MemMode(m))

NextFn ==
    \/ ApplyValidateKnown
    \/ ApplyNearestValidTier
    \/ ApplyFindNextKnownTier
    \/ ApplyFindPreviousKnownTier
    \/ ApplyBumpMem
    \/ ApplyTier
    \/ ApplyCpu
    \/ ApplyMem

SpecFn == InitFn /\ [][NextFn]_vars

---------------------------------------------------------------------------
(* Properties *)

\* the tuple order (vcpu, memory_mb)
TupleLess(c1, r1, c2, r2) == c1 < c2 \/ (c1 = c2 /\ r1 < r2)

\* the provider's rules, spelt out
SatisfiesRules(cpu, ram) ==
    /\ cpu = 1 \/ (cpu \in 2 .. 96 /\ cpu % 2 = 0)
    /\ ram % 256 = 0
    /\ ram >= 3840
    /\ ram >= (9216 * cpu) \div 10
    /\ ram <= 6656 * cpu

\* C1: whatever pair of integers nearestValidTier is given, the tier it
\* returns passes validateTier: vcpu is 1 or even in 2..96, memory is a
\* multiple of 256, at least 3840 and within the 0.9-6.5 GB/vCPU bounds.
C1_NearestIsValid ==
    call.op = "nearestValidTier" =>
        /\ validateTier(ret.cpu, ret.ram)
        /\ SatisfiesRules(ret.cpu, ret.ram)

\* C1 witness: an odd vcpu of 95 with negative memory came back as (96, 88576)
C1_Witness ==
    /\ call.op = "nearestValidTier"
    /\ call.cpu = 95
    /\ call.ram < 0
    /\ ret = T(96, 88576)

\* C2: the tier the -cpu mode emits for a vCPU count >= 1 passes validateTier.
C2_CpuTierIsValid ==
    call.op = "cpu" /\ call.cpu >= 1 => validateTier(ret.cpu, ret.ram)

C3_Args == <<FormatTier(8, 53248), FormatTier(8, 32000)>>

C3_Case ==
    /\ pc = "done"
    /\ mode = "check-downgrade"
    /\ flags.checkDowngrade = C3_Args

\* C3 as stated: -check-downgrade "db-custom-8-53248 db-custom-8-32000" finds
\* the recommended tier invalid, reports that the downgrade is not valid and
\* shows nearestValidTier(8, 32000).
C3_RecommendedInvalid ==
    C3_Case =>
        /\ ~out.isValidRec
        /\ ~out.validDowngrade
        /\ out.nearestShown
        /\ out.nearest = nearestValidTier(8, 32000)

\* C3 amended: 32000 = 125 * 256, so the recommended tier (8, 32000) is valid
\* and lower than (8, 53248): the report says the downgrade is valid, shows
\* neither a nearest valid tier nor a known lower tier, and the exit status is 0.
C3_RecommendedValid ==
    C3_Case =>
        /\ out.isValidCurr
        /\ out.isValidRec
        /\ out.isLower
        /\ out.validDowngrade
        /\ ~out.nearestShown
        /\ ~out.knownShown
        /\ exitCode = 0

\* C3 witness: the check-downgrade mode ran on the two tiers and said yes
C3_Witness ==
    /\ C3_Case
    /\ supplied = {"check-downgrade"}
    /\ out.validDowngrade

\* C4: knownTiers holds 27 entries, strictly ascending in the tuple order,
\* and validateTier accepts every one of them.
C4_KnownTiersValid ==
    /\ Len(knownTiers) = 27
    /\ \A i \in 1 .. Len(knownTiers) - 1 :
          TupleLess(knownTiers[i].cpu, knownTiers[i].ram,
                    knownTiers[i + 1].cpu, knownTiers[i + 1].ram)
    /\ \A i \in 1 .. Len(knownTiers) :
          validateTier(knownTiers[i].cpu, knownTiers[i].ram)
    /\ call.op = "validateKnown" =>
          /\ \E i \in 1 .. Len(knownTiers) : knownTiers[i] = T(call.cpu, call.ram)
          /\ ret.valid

\* C4 witness: validateTier accepted the last entry, (96, 638976)
C4_Witness ==
    /\ call.op = "validateKnown"
    /\ call.cpu = 96
    /\ call.ram = 638976
    /\ ret.valid

Above(cpu, ram) ==
    {i \in 1 .. Len(knownTiers) :
        TupleLess(cpu, ram, knownTiers[i].cpu, knownTiers[i].ram)}
Below(cpu, ram) ==
    {i \in 1 .. Len(knownTiers) :
        TupleLess(knownTiers[i].cpu, knownTiers[i].ram, cpu, ram)}

\* C5: findNextKnownTier returns the least entry strictly above the query and
\* found = false exactly when there is none; findPreviousKnownTier returns the
\* greatest entry strictly below it and found = false exactly when there is
\* none; when both are found, below < query < above and only the query itself
\* can be an entry strictly between them; findNextKnownTier(1, 3840) is (2, 7680).
C5_SearchBrackets ==
    /\ call.op = "findNextKnownTier" =>
          /\ ret.found <=> Above(call.cpu, call.ram) # {}
          /\ ~ret.found => ret = NotFound
          /\ ret.found =>
                /\ \E i \in Above(call.cpu, call.ram) : knownTiers[i] = T(ret.cpu, ret.ram)
                /\ \A i \in Above(call.cpu, call.ram) :
                      ~TupleLess(knownTiers[i].cpu, knownTiers[i].ram, ret.cpu, ret.ram)
          /\ (call.cpu = 1 /\ call.ram = 3840) => ret = Found(T(2, 7680))
    /\ call.op = "findPreviousKnownTier" =>
          /\ ret.found <=> Below(call.cpu, call.ram) # {}
          /\ ~ret.found => ret = NotFound
          /\ ret.found =>
                /\ \E i \in Below(call.cpu, call.ram) : knownTiers[i] = T(ret.cpu, ret.ram)
                /\ \A i \in Below(call.cpu, call.ram) :
                      ~TupleLess(ret.cpu, ret.ram, knownTiers[i].cpu, knownTiers[i].ram)
    /\ call.op \in {"findNextKnownTier", "findPreviousKnownTier"} =>
          LET above == findNextKnownTier(call.cpu, call.ram)
              below == findPreviousKnownTier(call.cpu, call.ram)
          IN  above.found /\ below.found =>
                /\ TupleLess(below.cpu, below.ram, call.cpu, call.ram)
                /\ TupleLess(call.cpu, call.ram, above.cpu, above.ram)
                /\ \A i \in 1 .. Len(knownTiers) :
                      (/\ TupleLess(below.cpu, below.ram,
                                    knownTiers[i].cpu, knownTiers[i].ram)
                       /\ TupleLess(knownTiers[i].cpu, knownTiers[i].ram,
                                    above.cpu, above.ram))
                      => knownTiers[i] = T(call.cpu, call.ram)

\* C5 witness: the search above (1, 3840) returned (2, 7680)
C5_Witness ==
    /\ call.op = "findNextKnownTier"
    /\ call.cpu = 1
    /\ call.ram = 3840
    /\ ret = Found(T(2, 7680))

\* C6: nearestValidTier applied to its own result returns that result.
C6_NearestIdempotent ==
    call.op = "nearestValidTier" => nearestValidTier(ret.cpu, ret.ram) = ret

\* C6 witness: (3, 1) was moved to (4, 3840), a tier that differs from the input
C6_Witness ==
    /\ call.op = "nearestValidTier"
    /\ call.cpu = 3
    /\ call.ram = 1
    /\ ret = T(4, 3840)

\* C7: when no mode flag or more than one mode flag is on the command line,
\* the process ends with a non-zero exit status (and so has run no mode).
C7_ModeFlagsChecked ==
    pc = "done" /\ Cardinality(supplied) # 1 => exitCode # 0

OutOfBand(cpu, ram) == ram < MinRatioRAM(cpu) \/ ram > MaxRatioRAM(cpu)

\* C8 as stated: the -mem mode's warning is triggered by a tier whose memory
\* is outside the 0.9-6.5 GB/vCPU band, which it produces for some input.
C8_WarningIsOutOfBand ==
    call.op = "mem" /\ ret.warning => OutOfBand(ret.cpu, ret.ram)

\* C8 amended: the tier the -mem mode produces is always within the
\* 0.9-6.5 GB/vCPU band; the warning is printed exactly when the derived
\* vcpu is an odd number above 1 or exceeds 96.
C8_MemTierInBand ==
    call.op = "mem" =>
        /\ ~OutOfBand(ret.cpu, ret.ram)
        /\ ret.ram % 256 = 0
        /\ ret.ram >= 3840
        /\ ret.cpu >= 1
        /\ ret.warning <=> (ret.cpu > 96 \/ (ret.cpu # 1 /\ ret.cpu % 2 = 1))

\* C8 witness: 3840 MB gave 3 vCPUs, a tier within the band, with the warning
C8_Witness ==
    /\ call.op = "mem"
    /\ call.ram = 3840
    /\ ret.cpu = 3
    /\ ret.ram = 3840
    /\ ret.warning

\* C9: when no known tier is above the parsed tier, the tier the -t mode
\* labels as valid ("already a valid custom tier" or "next valid custom
\* tier") passes validateTier.
C9_FallbackTierIsValid ==
    call.op = "tier" /\ ret.label \in {"AlreadyValid", "NextValid"} =>
        validateTier(ret.cpu, ret.ram)

\* C10: for a tier that passes validateTier, the -bump-mem mode keeps vcpu,
\* computes max_ram = 6.5*vcpu*1024 rounded down to 256 and floored at 3840,
\* never reports AlreadyExceedsMax, reports AlreadyMax exactly when
\* ram = max_ram and Bumped exactly when ram < max_ram, and the bumped tier
\* passes validateTier; (4, 3840) is bumped to (4, 26624).
C10_BumpOfValidTier ==
    call.op = "bumpMem" /\ validateTier(call.cpu, call.ram) =>
        LET m0     == ((6656 * call.cpu) \div 256) * 256
            maxRam == IF m0 < 3840 THEN 3840 ELSE m0
        IN  /\ ret.cpu = call.cpu
            /\ ret.ram = maxRam
            /\ ret.relation # "AlreadyExceedsMax"
            /\ ret.relation = "AlreadyMax" <=> call.ram = maxRam
            /\ ret.relation = "Bumped" <=> call.ram < maxRam
            /\ ret.relation = "Bumped" => validateTier(ret.cpu, ret.ram)
            /\ (call.cpu = 4 /\ call.ram = 3840) =>
                  /\ ret.relation = "Bumped"
                  /\ ret.newTier = TierStr("db-custom", <<4>>, <<2, 6, 6, 2, 4>>)

\* C10 witness: the valid tier (4, 3840) was bumped to (4, 26624)
C10_Witness ==
    /\ call.op = "bumpMem"
    /\ call.cpu = 4
    /\ call.ram = 3840
    /\ ret.relation = "Bumped"
    /\ ret.ram = 26624

===========================================================================
